---- MODULE Spec2Model ----
(***************************************************************************)
(* Recording controller of voilip (src/src/audio.rs): AudioBuffer with its *)
(* four mutexes and the is_recording atomic, driven by the audio callback  *)
(* thread (push_samples) and by the rdev key-listener thread               *)
(* (setup_ptt_control, setup_toggle_control), and emitting on the bounded  *)
(* handoff channel.                                                        *)
(*                                                                         *)
(* Units.  A sample is an integer count of 0.0005 of full scale, so that   *)
(* the f32 literals of the source are integers: 0.01 = 20, 0.005 = 10,     *)
(* and 0.01 * 2.5 = 50.  An Instant is an integer number of clock steps:    *)
(* a step is one second in VoiceActivity and PushToTalk mode and ten       *)
(* seconds in Toggle mode.                                                 *)
(***************************************************************************)
EXTENDS Integers, Sequences, FiniteSets, TLC

(* ----------------------------- bounds -------------------------------- *)
\* last value of the clock
MaxTime == 2
\* longest batch one callback delivers
MaxBatch == 2
\* ring capacity handed to AudioBuffer::new (VecDeque::with_capacity)
Capacity == 2
\* samples the ghost variable hist records before it stops recording
MaxHist == 3
\* config.max_recording_duration_sec, when it is Some
MaxRecordingDurationSec == 2
\* silence_duration_ms of RecordingMode::VoiceActivity, in seconds
SilenceDurationSec == 1
\* most samples the accumulation buffer takes before the source goes quiet
MaxAccum == 2
\* bound of the handoff channel (32 in main.rs), scaled
ChanCapacity == 1
\* bound of the result channel (32 in main.rs), scaled
ResultCapacity == 1
\* run-ending span of remove_silence_from_samples (800 in the source), scaled
TrimSpan == 1
\* min_segment_len of remove_silence_from_samples (1600 in the source), scaled
MinSegmentLen == 1
\* the same two constants at the scale of the post-processing runs, where the
\* inputs are long enough for a run shorter than the minimum and for a
\* silence shorter than the span
PostTrimSpan == 2
PostMinSegmentLen == 3
\* bits of the significand of an f32 (24 in the source), scaled
SignificandBits == 8
\* longest input of a post-processing run over every sequence of SampleLevels
MaxTrimLen == 8
\* longest ramp input of a post-processing run
MaxSpeedLen == 36
\* emissions the controller places on the handoff channel in one session run
MaxEmissions == 3

(* ------------------------ program constants -------------------------- *)
\* (0.01, 1000) default of push_samples, and Config::default
DefaultSilenceThreshold == 20
\* threshold of remove_silence_from_samples
TrimThreshold == 20
\* max_amplitude > 0.005 of the Toggle accumulation branch
WeakVoiceFloor == 10
\* toggle_silence_threshold_sec, in clock steps of 10 s
ToggleSilenceThresholdSec == 1
\* speed_factor 1.1 as the fraction SpeedNum / SpeedDen
SpeedNum == 11
SpeedDen == 10

NoTime == -1
Modes == {"VoiceActivity", "PushToTalk", "Toggle"}
Mutexes == {"buffer", "last_voice_activity", "recording_start_time", "accumulated_samples"}
\* the two keys the callback compares an event against; every other key falls
\* through both comparisons and changes nothing
Keys == {"modifier", "base"}
NoEvent == <<"none", "none">>

\* amplitudes the audio source delivers in each mode: silence, a level between
\* 1x and 2x the threshold, one above 2x.  Toggle, whose threshold is 2.5x the
\* base one, gets a level between the base threshold and 2.5x of it (no
\* voice), one between 2.5x and 5x (weak voice) and one above 5x (significant)
Amplitudes(m) ==
  CASE m = "VoiceActivity" -> {0, 30, 60}
    [] m = "PushToTalk" -> {0, 60}
    [] OTHER -> {30, 60, 120}

\* the levels one run's source delivers: all of the mode's amplitudes, or, in
\* Toggle mode, any two of them
SourceLevels(m) ==
  IF m = "Toggle"
  THEN {l \in SUBSET Amplitudes(m) : Cardinality(l) = 2}
  ELSE {Amplitudes(m)}

Batches(l) == UNION {[1..n -> l] : n \in 1..MaxBatch}

\* sample values of a post-processing run: silence, a sample exactly at the
\* trim threshold, speech
SampleLevels == {0, 20, 60}
SilenceLevels == {0, 20}
SpeechLevels == {60, -30}

Run(level, n) == [i \in 1..n |-> level]

\* every sequence of SampleLevels up to MaxTrimLen samples
TrimInputs == UNION {[1..n -> SampleLevels] : n \in 0..MaxTrimLen}

\* the run lengths and levels of an input [silence, short speech, silence of
\* at least the span, long speech, silence]
ShapeParams ==
  [lead : 1..2,
   short : 1..(PostMinSegmentLen - 1),
   gap : PostTrimSpan..(PostTrimSpan + 1),
   long : (PostMinSegmentLen + 1)..(PostMinSegmentLen + 2),
   trail : 1..(PostTrimSpan + 1),
   sil : SilenceLevels,
   s1 : SpeechLevels,
   s2 : SpeechLevels]

Shape(p) ==
  Run(p.sil, p.lead) \o Run(p.s1, p.short) \o Run(p.sil, p.gap)
    \o Run(p.s2, p.long) \o Run(p.sil, p.trail)

ShapeInputs == {Shape(p) : p \in ShapeParams}

\* ramps 1, 2, ..., n: every sample names its own index
RampInputs == {[i \in 1..n |-> i] : n \in 0..MaxSpeedLen}

(* ------------------------- pure functions ---------------------------- *)
Abs(x) == IF x < 0 THEN -x ELSE x

\* the last n elements of s
LastN(s, n) == IF Len(s) <= n THEN s ELSE SubSeq(s, Len(s) - n + 1, Len(s))

\* mutant: Toggle mode uses the base threshold
ActualThreshold_NoToggleFactor(m) == DefaultSilenceThreshold

\* lines 65-75
ActualThreshold(m) ==
  IF m = "Toggle" THEN (DefaultSilenceThreshold * 5) \div 2 ELSE DefaultSilenceThreshold

HasVoice(m, b) == \E i \in 1..Len(b) : Abs(b[i]) > ActualThreshold(m)

\* mutant: any sample above the threshold counts as significant
SignificantVoice_AnyVoice(m, b) == HasVoice(m, b)

\* lines 100-103: a sample above twice the threshold
SignificantVoice(m, b) == \E i \in 1..Len(b) : Abs(b[i]) > ActualThreshold(m) * 2

\* max_amplitude is raised only by samples above the threshold
MaxAmplitude(m, b) ==
  LET above == {Abs(b[i]) : i \in {j \in 1..Len(b) : Abs(b[j]) > ActualThreshold(m)}}
  IN IF above = {} THEN 0 ELSE CHOOSE a \in above : \A c \in above : c <= a

\* mutant: the eviction test is > instead of >=
RingPushOne_LateEvict(buf, s, cap) ==
  IF Len(buf) > cap THEN Append(Tail(buf), s) ELSE Append(buf, s)

RingPushOne(buf, s, cap) ==
  IF Len(buf) >= cap THEN Append(Tail(buf), s) ELSE Append(buf, s)

RECURSIVE RingPush(_, _, _)
RingPush(buf, b, cap) ==
  IF b = <<>> THEN buf ELSE RingPush(RingPushOne(buf, Head(b), cap), Tail(b), cap)

\* index one past the last sample above the trim threshold (0 when there is none)
SpeechEnd(seg) ==
  LET loud == {i \in 1..Len(seg) : Abs(seg[i]) > TrimThreshold}
  IN IF loud = {} THEN 0 ELSE CHOOSE i \in loud : \A j \in loud : j <= i

\* mutant: a run ends one silent sample later
RunEnded_Late(seg, span) ==
  /\ Len(seg) > span + 1
  /\ \A i \in (Len(seg) - span)..Len(seg) : Abs(seg[i]) <= TrimThreshold

\* line 357: the segment is longer than the span and its last `span` samples
\* are all at or below the threshold
RunEnded(seg, span) ==
  /\ Len(seg) > span
  /\ \A i \in (Len(seg) - span + 1)..Len(seg) : Abs(seg[i]) <= TrimThreshold

\* mutant: a run is kept whatever its length
LongEnough_Any(seg, minlen) == SpeechEnd(seg) >= 0

\* lines 363, 381: speech_end > min_segment_len
LongEnough(seg, minlen) == SpeechEnd(seg) > minlen

\* lines 349-384: the loop over the samples, then the last segment
RECURSIVE TrimScan(_, _, _, _, _, _)
TrimScan(samples, result, seg, speech, span, minlen) ==
  IF samples = <<>>
  THEN IF seg # <<>> /\ Len(seg) > minlen /\ LongEnough(seg, minlen)
       THEN result \o SubSeq(seg, 1, SpeechEnd(seg))
       ELSE result
  ELSE LET s == Head(samples)
           rest == Tail(samples)
       IN IF Abs(s) > TrimThreshold
          THEN TrimScan(rest, result, Append(seg, s), TRUE, span, minlen)
          ELSE IF speech
               THEN LET seg2 == Append(seg, s)
                    IN IF RunEnded(seg2, span)
                       THEN TrimScan(rest,
                                     IF LongEnough(seg2, minlen)
                                     THEN result \o SubSeq(seg2, 1, SpeechEnd(seg2))
                                     ELSE result,
                                     <<>>, FALSE, span, minlen)
                       ELSE TrimScan(rest, result, seg2, TRUE, span, minlen)
               ELSE TrimScan(rest, result, seg, FALSE, span, minlen)

\* remove_silence_from_samples with its two length constants as parameters
RemoveSilenceAt(samples, span, minlen) ==
  TrimScan(samples, <<>>, <<>>, FALSE, span, minlen)

remove_silence_from_samples(samples) ==
  RemoveSilenceAt(samples, TrimSpan, MinSegmentLen)

(* f32 arithmetic.  A non-negative float is the fraction <<n, d>> with d a   *)
(* power of two; every operation rounds its exact result to the nearest    *)
(* float of SignificandBits bits, ties to even.                            *)
\* the integer nearest to a / b, ties to even
RoundQ(a, b) ==
  LET q == a \div b
      r == a % b
  IN IF 2 * r > b \/ (2 * r = b /\ q % 2 = 1) THEN q + 1 ELSE q

\* the float nearest to a / b: the quotient is scaled by the power of two
\* that brings it into [2^(SignificandBits-1), 2^SignificandBits), rounded to
\* an integer, and scaled back
FRound(a, b) ==
  LET lo == 2 ^ (SignificandBits - 1)
      hi == 2 ^ SignificandBits
      shifts == 1..(SignificandBits + 2)
  IN IF a = 0 THEN <<0, 1>>
     ELSE IF a >= hi * b
     THEN LET t == CHOOSE k \in shifts :
                     a < hi * b * (2 ^ k) /\ a >= hi * b * (2 ^ (k - 1))
          IN <<RoundQ(a, b * (2 ^ t)) * (2 ^ t), 1>>
     ELSE IF a < lo * b
     THEN LET u == CHOOSE k \in shifts :
                     a * (2 ^ k) >= lo * b /\ a * (2 ^ (k - 1)) < lo * b
          IN <<RoundQ(a * (2 ^ u), b), 2 ^ u>>
     ELSE <<RoundQ(a, b), 1>>

\* `n as f32`
FromUsize(n) == FRound(n, 1)
\* `x as usize`, for x >= 0
ToUsize(x) == x[1] \div x[2]
FDiv(x, y) == FRound(x[1] * y[2], x[2] * y[1])
FMul(x, y) == FRound(x[1] * y[1], x[2] * y[2])
FEq(x, y) == x[1] * y[2] = y[1] * x[2]

\* the f32 literals 1.0, 2.0 and 1.1
FOne == FRound(1, 1)
FTwo == FRound(2, 1)
DefaultSpeedFactor == FRound(SpeedNum, SpeedDen)

\* line 399: (i as f32 * speed_factor) as usize
SrcIdx(i, factor) == ToUsize(FMul(FromUsize(i), factor))

\* line 395: (samples.len() as f32 / speed_factor) as usize
NewLen(n, factor) == ToUsize(FDiv(FromUsize(n), factor))

\* the element of S with k - 1 elements of S below it
KthSmallest(S, k) == CHOOSE x \in S : Cardinality({y \in S : y < x}) = k - 1

\* lines 395-403: the samples at src_idx, for every i below new_len whose
\* src_idx is inside the input, in the order of i
change_speed(samples, factor) ==
  IF FEq(factor, FOne)
  THEN samples
  ELSE LET new_len == NewLen(Len(samples), factor)
           kept == {i \in 0..(new_len - 1) : SrcIdx(i, factor) < Len(samples)}
       IN [k \in 1..Cardinality(kept) |->
             samples[SrcIdx(KthSmallest(kept, k), factor) + 1]]

\* the remove_silence and speed_factor fields as AudioBuffer::new sets them
remove_silence == TRUE
speed_factor == DefaultSpeedFactor

\* mutant: the speed change comes before the trimming
PostProcessWith_SpeedFirst(rs, sf, samples, span, minlen) ==
  LET sped == IF ~FEq(sf, FOne) /\ samples # <<>>
              THEN change_speed(samples, sf)
              ELSE samples
  IN IF rs /\ sped # <<>> THEN RemoveSilenceAt(sped, span, minlen) ELSE sped

\* lines 303-317 for a controller whose fields are rs and sf: trimming, then
\* the speed change
PostProcessWith(rs, sf, samples, span, minlen) ==
  LET trimmed == IF rs /\ samples # <<>>
                 THEN RemoveSilenceAt(samples, span, minlen)
                 ELSE samples
  IN IF ~FEq(sf, FOne) /\ trimmed # <<>>
     THEN change_speed(trimmed, sf)
     ELSE trimmed

\* stop_recording's post-processing with the controller's own fields
PostProcessAt(samples, span, minlen) ==
  PostProcessWith(remove_silence, speed_factor, samples, span, minlen)

PostProcess(samples) == PostProcessAt(samples, TrimSpan, MinSegmentLen)

\* mutant: the channel takes every value
TrySend_Unbounded(ch, s) == Append(ch, s)

\* mpsc::Sender::try_send: a full channel drops the value
TrySend(ch, s) == IF Len(ch) < ChanCapacity THEN Append(ch, s) ELSE ch

\* mutant: the send is attempted for an empty sequence too
Emit_Always(ch, s) == TrySend(ch, s)

\* `if !samples.is_empty() { let _ = tx.try_send(samples); }` (lines 152-156,
\* 323-329)
Emit(ch, s) == IF s # <<>> THEN TrySend(ch, s) ELSE ch

(* --------------------------- key names ------------------------------- *)
(* A key name is the sequence of its parts between "+" signs, so that      *)
(* key_name.contains("+") is Len(name) >= 2, parts[0] is name[1] and       *)
(* parts[1] is name[2].  The parts are drawn from the tokens below; trim,  *)
(* to_uppercase and len are tabulated for them.                            *)
LetterTokens == {"a", "Z"}
DigitTokens == {"5"}
\* names both name tables know, names only the single-key table knows
NamedTokens == {"f9", "F12", "space", "esc"}
SingleOnlyTokens == {"home", "ctrl"}
\* parts that are no key name in any table
UnknownTokens == {"foo", "", "-"}
PaddedTokens == {" a ", " foo "}
ModifierTokens == {"ctrl", "alt", "shift", "super", "hyper"}
KeyTokens ==
  LetterTokens \cup DigitTokens \cup NamedTokens \cup SingleOnlyTokens
    \cup UnknownTokens \cup PaddedTokens

\* a key alone, or a modifier and a base key
KeyNames == {<<t>> : t \in KeyTokens} \cup {<<m, t>> : m \in ModifierTokens, t \in KeyTokens}

\* str::trim
Trim(t) ==
  CASE t = " a " -> "a"
    [] t = " foo " -> "foo"
    [] OTHER -> t

\* str::to_uppercase
ToUppercase(t) ==
  CASE t = "a" -> "A"
    [] t = "f9" -> "F9"
    [] t = "space" -> "SPACE"
    [] t = "esc" -> "ESC"
    [] t = "home" -> "HOME"
    [] t = "ctrl" -> "CTRL"
    [] t = "foo" -> "FOO"
    [] t = " a " -> " A "
    [] t = " foo " -> " FOO "
    [] OTHER -> t

\* str::len() == 1, char::is_ascii_alphabetic, char::is_ascii_digit
IsOneChar(t) == t \in {"a", "Z", "5", "-"}
IsAsciiAlphabetic(c) == c \in {"a", "Z"}
IsAsciiDigit(c) == c \in {"5"}

\* lines 790-821, 868-896: the match on a letter
LetterKey(c) ==
  CASE c \in {"a", "A"} -> "KeyA"
    [] c \in {"z", "Z"} -> "KeyZ"

\* lines 824-836, 898-910: the match on a digit
DigitKey(c) == CASE c = "5" -> "Num5"

\* lines 841-861: the names a chord's base key may have
ChordKeyByName(u) ==
  CASE u = "F9" -> "F9"
    [] u = "F12" -> "F12"
    [] u = "SPACE" -> "Space"
    [] u \in {"ESCAPE", "ESC"} -> "Escape"
    [] OTHER -> "F9"

\* lines 914-965: the names a single key may have
SingleKeyByName(u) ==
  CASE u = "F9" -> "F9"
    [] u = "F12" -> "F12"
    [] u \in {"CTRL", "LCTRL"} -> "ControlLeft"
    [] u = "SPACE" -> "Space"
    [] u \in {"ESCAPE", "ESC"} -> "Escape"
    [] u = "HOME" -> "Home"
    [] OTHER -> "CapsLock"

\* lines 777-967
parse_key_name(key_name) ==
  IF Len(key_name) >= 2
  THEN LET key == Trim(key_name[2])
       IN IF IsOneChar(key) /\ IsAsciiAlphabetic(key) THEN LetterKey(key)
          ELSE IF IsOneChar(key) /\ IsAsciiDigit(key) THEN DigitKey(key)
          ELSE ChordKeyByName(ToUppercase(key))
  ELSE LET c == key_name[1]
       IN IF IsOneChar(c) /\ IsAsciiAlphabetic(c) THEN LetterKey(c)
          ELSE IF IsOneChar(c) /\ IsAsciiDigit(c) THEN DigitKey(c)
          ELSE SingleKeyByName(ToUppercase(c))

(* ------------------------------ state -------------------------------- *)
VARIABLES
  mode,                  \* config.recording_mode
  is_composite,          \* the configured key contains "+"
  max_recording_duration,\* config.max_recording_duration_sec, NoTime for None
  levels,                \* the amplitudes the input device delivers in this run
  config_remove_silence, \* config.remove_silence
  config_speed_factor,   \* config.speed_factor
  buffer,                \* AudioBuffer.buffer, the ring
  accumulated_samples,   \* AudioBuffer.accumulated_samples
  last_voice_activity,   \* Option<Instant>, NoTime for None
  recording_start_time,  \* Option<Instant>, NoTime for None
  is_recording,          \* the AtomicBool
  chan,                  \* the handoff channel (audio_tx / audio_rx)
  holder,                \* which thread holds each mutex
  poisoned,              \* mutexes whose guard was dropped by a panic
  now,                   \* Instant::now()
  pcA,                   \* position of the audio callback thread
  batch,                 \* samples of the running push_samples call
  a_is_recording,        \* the local is_recording of push_samples (line 62)
  pcK,                   \* position of the key-listener thread
  kEvent,                \* the event the listener callback is handling
  modifier_pressed,      \* the AtomicBool of setup_ptt_control
  kWasRecording,         \* ghost: is_recording when the event was dispatched
  kSent,                 \* ghost: the running callback has called try_send
  hist,                  \* ghost: samples pushed since the ring was last cleared
  histValid,             \* ghost: hist is complete (no more than MaxHist samples)
  accExpected,           \* ghost: the batches with voice that push_samples handled
                         \* as Recording since is_recording was last set (kept
                         \* until the callback that stops the recording returns)
  recFrom,               \* ghost: how many samples of hist were pushed before
                         \* is_recording was last set (0 when hist is not valid)
  pcP,                   \* position of a post-processing run
  samples_in,            \* the samples a post-processing run is given
  factor_in,             \* the speed_factor argument of its change_speed call
  samples_out,           \* the samples it returns
  running,               \* AppState.running
  pcM,                   \* position of main
  stream,                \* AudioCapture.stream is Some
  audio_tx_owners,       \* who holds an Arc of the AudioBuffer, the owner of audio_tx
  pcT,                   \* position of the transcriber task
  transcribing,          \* audio of the spawn_blocking closures that are running
  sending,               \* results of the spawned tasks waiting in result_tx.send
  result_chan,           \* the result channel (result_tx / result_rx)
  pcO,                   \* position of the output task
  placed,                \* ghost: the emissions try_send accepted, in order
  result_log,            \* ghost: the results sent on the result channel, in order
  pcN,                   \* position of a parse_key_name call
  key_name,              \* its argument
  parsed_key             \* the Key it returns

vars == <<mode, is_composite, max_recording_duration, levels, buffer, accumulated_samples,
          last_voice_activity, recording_start_time, is_recording, chan, holder,
          poisoned, now, pcA, batch, a_is_recording, pcK, kEvent, modifier_pressed,
          kWasRecording, kSent, hist, histValid, accExpected, recFrom,
          config_remove_silence, config_speed_factor, pcP, samples_in, factor_in,
          samples_out, running, pcM, stream, audio_tx_owners, pcT, transcribing,
          sending, result_chan, pcO, placed, result_log, pcN, key_name,
          parsed_key>>

configVars == <<mode, is_composite, max_recording_duration, levels,
                config_remove_silence, config_speed_factor>>
postVars == <<pcP, samples_in, factor_in, samples_out>>
parseVars == <<pcN, key_name, parsed_key>>
sessionVars == <<running, pcM, stream, audio_tx_owners, pcT, transcribing, sending,
                 result_chan, pcO, placed, result_log>>
keyVars == <<pcK, kEvent, modifier_pressed, kWasRecording, kSent>>
audioVars == <<pcA, batch, a_is_recording>>
histVars == <<hist, histValid, accExpected, recFrom>>

\* AudioBuffer::new, and the listener before its first event
InitController ==
  /\ levels \in SourceLevels(mode)
  /\ buffer = <<>>
  /\ accumulated_samples = <<>>
  /\ last_voice_activity = NoTime
  /\ recording_start_time = NoTime
  /\ is_recording = FALSE
  /\ chan = <<>>
  /\ holder = [m \in Mutexes |-> "none"]
  /\ poisoned = {}
  /\ now = 0
  /\ pcA = "idle"
  /\ batch = <<>>
  /\ a_is_recording = FALSE
  /\ pcK = "idle"
  /\ kEvent = NoEvent
  /\ modifier_pressed = FALSE
  /\ kWasRecording = FALSE
  /\ kSent = FALSE
  /\ hist = <<>>
  /\ histValid = TRUE
  /\ accExpected = <<>>
  /\ recFrom = 0

\* no post-processing run is under way
PostIdle ==
  /\ pcP = "idle"
  /\ samples_in = <<>>
  /\ factor_in = speed_factor
  /\ samples_out = <<>>

\* the holders of an Arc<AudioBuffer>: AudioCapture.audio_buffer, the stream's
\* callback (build_stream) and, in the two key-driven modes, the listener
\* thread's callback
AudioBufferOwners(m) ==
  {"capture", "stream"} \cup (IF m = "VoiceActivity" THEN {} ELSE {"listener"})

\* main.rs lines 190-229: both channels empty, the stream playing, the two
\* tasks spawned, main in its loop
SessionRunning ==
  /\ running = TRUE
  /\ pcM = "loop"
  /\ stream = TRUE
  /\ audio_tx_owners = AudioBufferOwners(mode)
  /\ pcT = "recv"
  /\ transcribing = {}
  /\ sending = {}
  /\ result_chan = <<>>
  /\ pcO = "recv"
  /\ placed = <<>>
  /\ result_log = <<>>

\* no parse_key_name call is under way
ParseIdle ==
  /\ pcN = "idle"
  /\ key_name = <<>>
  /\ parsed_key = "none"

\* a controller run: Config::default for the two post-processing settings
InitState ==
  /\ InitController
  /\ config_remove_silence = TRUE
  /\ config_speed_factor = DefaultSpeedFactor
  /\ PostIdle
  /\ SessionRunning
  /\ ParseIdle

Acquire(m, t) == [holder EXCEPT ![m] = t]
ReleaseAll(S) == [m \in Mutexes |-> IF m \in S THEN "none" ELSE holder[m]]
HeldBy(t) == {m \in Mutexes : holder[m] = t}

\* the ghost record of the pushes, cut off beyond MaxHist samples
HistPush(b) ==
  IF histValid /\ Len(hist) + Len(b) <= MaxHist
  THEN hist' = hist \o b /\ histValid' = TRUE
  ELSE hist' = <<>> /\ histValid' = FALSE
HistClear == hist' = <<>> /\ histValid' = TRUE

(* ---------------- the audio callback: push_samples ------------------- *)
\* the cpal callback calls push_samples(data, &app_config)
PushSamples_Call ==
  /\ pcA = "idle"
  /\ pcA' = "lock_buffer"
  /\ UNCHANGED <<configVars, postVars, sessionVars, parseVars, buffer, accumulated_samples, last_voice_activity,
                 recording_start_time, is_recording, chan, holder, poisoned, now,
                 batch, a_is_recording, keyVars, histVars>>

\* lines 58-60: the three guards the call keeps until it returns
PushSamples_Lock ==
  /\ pcA \in {"lock_buffer", "lock_activity", "lock_start"}
  /\ LET m == CASE pcA = "lock_buffer" -> "buffer"
                [] pcA = "lock_activity" -> "last_voice_activity"
                [] OTHER -> "recording_start_time"
     IN /\ holder[m] = "none"
        /\ holder' = Acquire(m, "audio")
  /\ pcA' = CASE pcA = "lock_buffer" -> "lock_activity"
              [] pcA = "lock_activity" -> "lock_start"
              [] OTHER -> "body"
  /\ UNCHANGED <<configVars, postVars, sessionVars, parseVars, buffer, accumulated_samples, last_voice_activity,
                 recording_start_time, is_recording, chan, poisoned, now, batch,
                 a_is_recording, keyVars, histVars>>

\* the Toggle accumulation branch is taken (lines 107-131)
Accumulates(m, rec, b) ==
  /\ rec
  /\ m = "Toggle"
  /\ (SignificantVoice(m, b) \/ MaxAmplitude(m, b) > WeakVoiceFloor)

\* mutant: the duration has to exceed the cap
MaxDurationReached_Strict(m, rec, start, maxd, t) ==
  /\ rec
  /\ start # NoTime
  /\ maxd # NoTime
  /\ m \in {"VoiceActivity", "PushToTalk"}
  /\ t - start > maxd

\* mutant: the segmentation is not restricted to two of the modes
MaxDurationReached_AnyMode(m, rec, start, maxd, t) ==
  /\ rec
  /\ start # NoTime
  /\ maxd # NoTime
  /\ t - start >= maxd

\* the max-duration segmentation applies (lines 140-147)
MaxDurationReached(m, rec, start, maxd, t) ==
  /\ rec
  /\ start # NoTime
  /\ maxd # NoTime
  /\ m \in {"VoiceActivity", "PushToTalk"}
  /\ t - start >= maxd

\* lines 165-169: the segmentation also stops a silent VoiceActivity recording
MaxDurationStops(m, b) == m = "VoiceActivity" /\ ~HasVoice(m, b)

\* line 183: the VoiceActivity silence stop
SilenceExceeded(last, t) == last # NoTime /\ t - last > SilenceDurationSec

\* line 188: VoiceActivity starts on voice
VoiceStarts(m, rec, b) == m = "VoiceActivity" /\ ~rec /\ HasVoice(m, b)

\* mutant: the watchdog is not restricted to Toggle mode
WatchdogApplies_AnyMode(m) == m \in Modes

\* line 192: the watchdog belongs to Toggle mode
WatchdogApplies(m) == m = "Toggle"

\* lines 194-199: the Toggle watchdog
WatchdogExceeded(m, rec, last, t) ==
  /\ WatchdogApplies(m)
  /\ rec
  /\ last # NoTime
  /\ t - last > ToggleSilenceThresholdSec

\* lines 177-243: where the mode decision sends the call.  The watchdog with a
\* non-empty accumulation buffer locks accumulated_samples at line 226 while
\* the guard of line 201 is alive.
ModeTarget(m, rec, last, t, b, acc) ==
  CASE m = "VoiceActivity" /\ rec /\ SilenceExceeded(last, t) -> "silence_stop"
    [] VoiceStarts(m, rec, b) -> "start_load"
    [] WatchdogExceeded(m, rec, last, t) /\ acc # <<>> -> "relock"
    [] OTHER -> "return"

\* Lines 62-243 up to the first call of start_recording or stop_recording or
\* to the second lock of line 226.  The call holds the buffer,
\* last_voice_activity and recording_start_time guards, and the
\* accumulated_samples mutex is free whenever this thread holds them (the
\* listener locks it only under recording_start_time or buffer), so the one
\* step is the read of the flag at line 62 followed by work no other thread
\* can observe; the listener cannot store the flag between lines 62 and 217.
\* The watchdog's guard of line 201 is still held when the call goes on.
PushSamples_Body ==
  /\ pcA = "body"
  /\ \E b \in Batches(levels) :
       LET rec == is_recording
           pushed == RingPush(buffer, b, Capacity)
           acc == IF Accumulates(mode, rec, b)
                  THEN accumulated_samples \o b
                  ELSE accumulated_samples
           last == IF SignificantVoice(mode, b) THEN now ELSE last_voice_activity
           seg == MaxDurationReached(mode, rec, recording_start_time,
                                     max_recording_duration, now)
           maxStop == seg /\ MaxDurationStops(mode, b)
           wd == ~maxStop /\ WatchdogExceeded(mode, rec, last, now)
       IN /\ Len(acc) <= MaxAccum
          /\ batch' = b
          /\ a_is_recording' = rec
          /\ last_voice_activity' = last
          /\ IF seg
             THEN /\ buffer' = <<>>
                  /\ HistClear
             ELSE /\ buffer' = pushed
                  /\ HistPush(b)
          /\ recFrom' = IF seg \/ ~histValid \/ Len(hist) + Len(b) > MaxHist
                        THEN 0
                        ELSE recFrom
          /\ accExpected' = CASE wd -> <<>>
                              [] rec /\ mode = "Toggle" /\ HasVoice(mode, b) ->
                                   accExpected \o b
                              [] OTHER -> accExpected
          /\ holder' = IF wd /\ acc # <<>>
                       THEN Acquire("accumulated_samples", "audio")
                       ELSE holder
          /\ chan' = CASE seg -> Emit(chan, pushed)
                       [] wd /\ acc # <<>> -> TrySend(chan, acc)
                       [] OTHER -> chan
          /\ recording_start_time' = CASE wd -> NoTime
                                       [] seg -> now
                                       [] OTHER -> recording_start_time
          /\ is_recording' = IF wd THEN FALSE ELSE is_recording
          /\ accumulated_samples' = acc
          /\ pcA' = IF maxStop
                    THEN "max_stop"
                    ELSE ModeTarget(mode, rec, last, now, b, acc)
  /\ UNCHANGED <<configVars, postVars, sessionVars, parseVars, poisoned, now, keyVars>>

\* line 245: Ok(()), the three guards are dropped
PushSamples_Return ==
  /\ pcA = "return"
  /\ holder' = ReleaseAll(HeldBy("audio"))
  /\ pcA' = "idle"
  /\ batch' = <<>>
  /\ a_is_recording' = FALSE
  /\ UNCHANGED <<configVars, postVars, sessionVars, parseVars, buffer, accumulated_samples, last_voice_activity,
                 recording_start_time, is_recording, chan, poisoned, now,
                 keyVars, histVars>>

\* mutant: start_recording goes on whatever the flag is
StartLoadTarget_NoCheck(rec) == "start_store"

\* lines 251-253: start_recording returns at once when the flag is set
StartLoadTarget(rec) == IF rec THEN "return" ELSE "start_store"

\* lines 281-283: stop_recording returns at once when the flag is clear
StopLoadTarget(rec) == IF ~rec THEN "return" ELSE "stop_lock_buffer"

\* self.stop_recording() inside push_samples (lines 168, 185): lines 281-285.
\* A set flag sends the call to lock the buffer mutex, which it holds.
Audio_StopRecording ==
  /\ pcA \in {"max_stop", "silence_stop"}
  /\ pcA' = IF ~is_recording
            THEN (IF pcA = "max_stop"
                  THEN ModeTarget(mode, a_is_recording, last_voice_activity, now,
                                  batch, accumulated_samples)
                  ELSE "return")
            ELSE "relock"
  /\ UNCHANGED <<configVars, postVars, sessionVars, parseVars, buffer, accumulated_samples, last_voice_activity,
                 recording_start_time, is_recording, chan, holder, poisoned, now,
                 batch, a_is_recording, keyVars, histVars>>

\* self.start_recording() inside push_samples (line 190): lines 251-259.
\* The flag is stored, then the call locks recording_start_time, which it holds.
Audio_StartRecording ==
  /\ pcA \in {"start_load", "start_store"}
  /\ IF pcA = "start_load"
     THEN /\ pcA' = StartLoadTarget(is_recording)
          /\ UNCHANGED is_recording
     ELSE /\ is_recording' = TRUE
          /\ pcA' = "relock"
  /\ UNCHANGED <<configVars, postVars, sessionVars, parseVars, buffer, accumulated_samples, last_voice_activity,
                 recording_start_time, chan, holder, poisoned, now, batch,
                 a_is_recording, keyVars, histVars>>

\* Mutex::lock on a mutex the calling thread holds: the call never returns; it
\* blocks for ever or panics, and a panic drops (and poisons) the guards held.
Audio_Relock ==
  /\ pcA = "relock"
  /\ \E outcome \in {"deadlocked", "panicked"} :
       /\ pcA' = outcome
       /\ IF outcome = "panicked"
          THEN /\ poisoned' = poisoned \cup HeldBy("audio")
               /\ holder' = ReleaseAll(HeldBy("audio"))
          ELSE UNCHANGED <<poisoned, holder>>
  /\ UNCHANGED <<configVars, postVars, sessionVars, parseVars, buffer, accumulated_samples, last_voice_activity,
                 recording_start_time, is_recording, chan, now, batch,
                 a_is_recording, keyVars, histVars>>

(* ------------------------- the environment --------------------------- *)
Tick ==
  /\ now < MaxTime
  /\ now' = now + 1
  /\ UNCHANGED <<configVars, postVars, sessionVars, parseVars, buffer, accumulated_samples, last_voice_activity,
                 recording_start_time, is_recording, chan, holder, poisoned,
                 audioVars, keyVars, histVars>>

\* Transcriber::run takes the next emission (audio_rx.recv())
Transcriber_Recv ==
  /\ chan # <<>>
  /\ chan' = Tail(chan)
  /\ UNCHANGED <<configVars, postVars, sessionVars, parseVars, buffer, accumulated_samples, last_voice_activity,
                 recording_start_time, is_recording, holder, poisoned, now,
                 audioVars, keyVars, histVars>>

(* ------------------- VoiceActivity: no key listener ------------------ *)
InitVA ==
  /\ mode = "VoiceActivity"
  /\ is_composite = FALSE
  /\ max_recording_duration \in {NoTime, MaxRecordingDurationSec}
  /\ InitState

NextVA ==
  \/ PushSamples_Call
  \/ PushSamples_Lock
  \/ PushSamples_Body
  \/ PushSamples_Return
  \/ Audio_StartRecording
  \/ Audio_Relock
  \/ Tick

SpecVA == InitVA /\ [][NextVA]_vars

(* --------------- AudioBuffer::start_recording / stop_recording ------- *)
\* the mutex a position of start_recording / stop_recording is about to lock
KeyLockTarget(pc) ==
  CASE pc = "start_lock_start" -> "recording_start_time"
    [] pc = "start_lock_activity" -> "last_voice_activity"
    [] pc = "start_lock_accum" -> "accumulated_samples"
    [] pc = "stop_lock_buffer" -> "buffer"
    [] pc = "stop_lock_accum" -> "accumulated_samples"
    [] OTHER -> "none"

\* a poisoned mutex makes lock() return Err: `?` returns, dropping the guards held
Key_LockError ==
  /\ holder' = ReleaseAll(HeldBy("key"))
  /\ pcK' = "return"

\* mutant: start_recording also empties the ring
StartClears_WithRing == {"accumulated_samples", "buffer"}

\* the sample stores start_recording empties (line 268); it never locks buffer
StartClears == {"accumulated_samples"}

\* start_recording called by the listener thread (lines 249-276)
Key_StartRecording ==
  /\ pcK \in {"start_load", "start_store", "start_lock_start", "start_lock_activity",
              "start_lock_accum"}
  /\ CASE pcK = "start_load" ->
            /\ pcK' = StartLoadTarget(is_recording)
            /\ UNCHANGED <<is_recording, recording_start_time, last_voice_activity,
                           accumulated_samples, buffer, holder, accExpected,
                           recFrom>>
       [] pcK = "start_store" ->
            /\ is_recording' = TRUE
            /\ accExpected' = <<>>
            /\ recFrom' = IF histValid /\ mode # "Toggle" THEN Len(hist) ELSE 0
            /\ pcK' = "start_lock_start"
            /\ UNCHANGED <<recording_start_time, last_voice_activity,
                           accumulated_samples, buffer, holder>>
       [] pcK = "start_lock_start" ->
            /\ UNCHANGED <<is_recording, last_voice_activity, accumulated_samples,
                           buffer, accExpected, recFrom>>
            /\ IF "recording_start_time" \in poisoned
               THEN Key_LockError /\ UNCHANGED recording_start_time
               ELSE /\ holder["recording_start_time"] = "none"
                    /\ holder' = Acquire("recording_start_time", "key")
                    /\ recording_start_time' = now
                    /\ pcK' = "start_lock_activity"
       [] pcK = "start_lock_activity" ->
            /\ UNCHANGED <<is_recording, recording_start_time, accumulated_samples,
                           buffer, accExpected, recFrom>>
            /\ IF "last_voice_activity" \in poisoned
               THEN Key_LockError /\ UNCHANGED last_voice_activity
               ELSE /\ holder["last_voice_activity"] = "none"
                    /\ holder' = Acquire("last_voice_activity", "key")
                    /\ last_voice_activity' = now
                    /\ pcK' = "start_lock_accum"
       [] OTHER ->
            /\ UNCHANGED <<is_recording, recording_start_time, last_voice_activity,
                           accExpected, recFrom>>
            /\ IF "accumulated_samples" \in poisoned
               THEN Key_LockError /\ UNCHANGED <<accumulated_samples, buffer>>
               ELSE /\ holder["accumulated_samples"] = "none"
                    /\ accumulated_samples' =
                         IF "accumulated_samples" \in StartClears
                         THEN <<>> ELSE accumulated_samples
                    /\ buffer' = IF "buffer" \in StartClears THEN <<>> ELSE buffer
                    /\ holder' = ReleaseAll(HeldBy("key"))
                    /\ pcK' = "return"
  /\ UNCHANGED <<configVars, postVars, sessionVars, parseVars, chan, poisoned, now, audioVars, kEvent,
                 modifier_pressed, kWasRecording, kSent, hist, histValid>>

\* mutant: the ring is always the emission source
EmissionSource_RingOnly(acc, ring) == ring

\* lines 290-301: the accumulation buffer, when it holds anything, else the ring
EmissionSource(acc, ring) == IF acc # <<>> THEN acc ELSE ring

\* stop_recording called by the listener thread (lines 279-338)
Key_StopRecording ==
  /\ pcK \in {"stop_load", "stop_lock_buffer", "stop_lock_accum"}
  /\ CASE pcK = "stop_load" ->
            /\ pcK' = StopLoadTarget(is_recording)
            /\ UNCHANGED <<is_recording, buffer, accumulated_samples, chan, holder,
                           kSent, histVars>>
       [] pcK = "stop_lock_buffer" ->
            /\ UNCHANGED <<buffer, accumulated_samples, chan, kSent, histVars>>
            /\ IF "buffer" \in poisoned
               THEN Key_LockError /\ UNCHANGED is_recording
               ELSE /\ holder["buffer"] = "none"
                    /\ is_recording' = FALSE
                    /\ IF buffer # <<>>
                       THEN /\ holder' = Acquire("buffer", "key")
                            /\ pcK' = "stop_lock_accum"
                       ELSE /\ holder' = holder
                            /\ pcK' = "return"
       [] OTHER ->
            /\ UNCHANGED <<is_recording, accExpected>>
            /\ recFrom' = 0
            /\ IF "accumulated_samples" \in poisoned
               THEN Key_LockError /\ UNCHANGED <<buffer, accumulated_samples, chan,
                                                 kSent, hist, histValid>>
               ELSE /\ holder["accumulated_samples"] = "none"
                    /\ LET out == PostProcess(EmissionSource(accumulated_samples, buffer))
                       IN /\ chan' = Emit(chan, out)
                          /\ kSent' = (out # <<>>)
                    /\ accumulated_samples' = <<>>
                    /\ buffer' = <<>>
                    /\ HistClear
                    /\ holder' = ReleaseAll(HeldBy("key"))
                    /\ pcK' = "return"
  /\ UNCHANGED <<configVars, postVars, sessionVars, parseVars, last_voice_activity, recording_start_time, poisoned,
                 now, audioVars, kEvent, modifier_pressed, kWasRecording>>

(* ------------- the listener callback of setup_ptt_control ------------ *)
\* mutant: the chord's base key activates without looking at the modifier
ShouldActivate_IgnoreModifier(composite, modPressed) == composite \/ ~composite

\* lines 554-558
ShouldActivate(composite, modPressed) == IF composite THEN modPressed ELSE TRUE

\* line 603: the base key's release stops unless the chord's modifier is held
BaseReleaseStops(composite, modPressed) == ~composite \/ ~modPressed

\* the value of modifier_pressed after the event (lines 545-549, 581-583)
ModifierAfter(composite, type, key, modPressed) ==
  IF composite /\ key = "modifier" THEN type = "press" ELSE modPressed

\* mutant: the modifier's release only clears modifier_pressed
PttTarget_NoModifierStop(composite, type, key, modPressed) ==
  CASE type = "press" /\ key = "base" /\ ShouldActivate(composite, modPressed) ->
         "start_load"
    [] type = "release" /\ key = "base" /\ BaseReleaseStops(composite, modPressed) ->
         "stop_load"
    [] OTHER -> "return"

\* lines 543-619: what the callback does with the event
PttTarget(composite, type, key, modPressed) ==
  CASE type = "press" /\ key = "base" /\ ShouldActivate(composite, modPressed) ->
         "start_load"
    [] type = "release" /\ composite /\ key = "modifier" -> "release_check"
    [] type = "release" /\ key = "base" /\ BaseReleaseStops(composite, modPressed) ->
         "stop_load"
    [] OTHER -> "return"

\* the callback of setup_ptt_control takes one event (lines 541-622)
Ptt_Dispatch(type, key) ==
  /\ pcK = "idle"
  /\ kEvent' = <<type, key>>
  /\ modifier_pressed' = ModifierAfter(is_composite, type, key, modifier_pressed)
  /\ pcK' = PttTarget(is_composite, type, key,
                      ModifierAfter(is_composite, type, key, modifier_pressed))
  /\ kWasRecording' = is_recording
  /\ kSent' = FALSE
  /\ UNCHANGED <<configVars, postVars, sessionVars, parseVars, buffer, accumulated_samples, last_voice_activity,
                 recording_start_time, is_recording, chan, holder, poisoned, now,
                 audioVars, histVars>>

\* rdev delivers a KeyPress or KeyRelease to the callback
Ptt_KeyEvent == \E type \in {"press", "release"}, key \in Keys : Ptt_Dispatch(type, key)

\* line 586: the modifier's release stops a running recording
Ptt_ReleaseCheck ==
  /\ pcK = "release_check"
  /\ pcK' = IF is_recording THEN "stop_load" ELSE "return"
  /\ UNCHANGED <<configVars, postVars, sessionVars, parseVars, buffer, accumulated_samples, last_voice_activity,
                 recording_start_time, is_recording, chan, holder, poisoned, now,
                 audioVars, kEvent, modifier_pressed, kWasRecording, kSent, histVars>>

\* the callback returns to rdev's listen loop
Key_Return ==
  /\ pcK = "return"
  /\ pcK' = "idle"
  /\ kEvent' = NoEvent
  /\ kWasRecording' = FALSE
  /\ kSent' = FALSE
  /\ accExpected' = IF is_recording THEN accExpected ELSE <<>>
  /\ recFrom' = IF is_recording THEN recFrom ELSE 0
  /\ UNCHANGED <<configVars, postVars, sessionVars, parseVars, buffer, accumulated_samples, last_voice_activity,
                 recording_start_time, is_recording, chan, holder, poisoned, now,
                 audioVars, modifier_pressed, hist, histValid>>

(* ------------------------- PushToTalk -------------------------------- *)
InitPTT ==
  /\ mode = "PushToTalk"
  /\ is_composite \in BOOLEAN
  /\ max_recording_duration = MaxRecordingDurationSec
  /\ InitState

NextPTT ==
  \/ PushSamples_Call
  \/ PushSamples_Lock
  \/ PushSamples_Body
  \/ PushSamples_Return
  \/ Ptt_KeyEvent
  \/ Ptt_ReleaseCheck
  \/ Key_StartRecording
  \/ Key_StopRecording
  \/ Key_Return
  \/ Transcriber_Recv
  \/ Tick

SpecPTT == InitPTT /\ [][NextPTT]_vars

(* ------------ the listener callback of setup_toggle_control ---------- *)
\* lines 681-685
ShouldToggle(composite, modPressed) == IF composite THEN modPressed ELSE TRUE

\* lines 670-730: a press of the toggle key goes on to read the flag, nothing
\* else does anything but track the modifier
ToggleTarget(composite, type, key, modPressed) ==
  IF type = "press" /\ key = "base" /\ ShouldToggle(composite, modPressed)
  THEN "toggle_check"
  ELSE "return"

\* the callback of setup_toggle_control takes one event (lines 668-733)
Toggle_Dispatch(type, key) ==
  /\ pcK = "idle"
  /\ kEvent' = <<type, key>>
  /\ modifier_pressed' = ModifierAfter(is_composite, type, key, modifier_pressed)
  /\ pcK' = ToggleTarget(is_composite, type, key,
                         ModifierAfter(is_composite, type, key, modifier_pressed))
  /\ kWasRecording' = is_recording
  /\ kSent' = FALSE
  /\ UNCHANGED <<configVars, postVars, sessionVars, parseVars, buffer, accumulated_samples, last_voice_activity,
                 recording_start_time, is_recording, chan, holder, poisoned, now,
                 audioVars, histVars>>

Toggle_KeyEvent ==
  \E type \in {"press", "release"}, key \in Keys : Toggle_Dispatch(type, key)

\* line 693: audio_buffer.is_recording() chooses between stop and start
Toggle_Check ==
  /\ pcK = "toggle_check"
  /\ pcK' = IF is_recording THEN "stop_load" ELSE "start_load"
  /\ kWasRecording' = is_recording
  /\ UNCHANGED <<configVars, postVars, sessionVars, parseVars, buffer, accumulated_samples, last_voice_activity,
                 recording_start_time, is_recording, chan, holder, poisoned, now,
                 audioVars, kEvent, modifier_pressed, kSent, histVars>>

(* ----------------------------- Toggle -------------------------------- *)
\* main.rs sets max_recording_duration_sec to Some(300) in Toggle mode;
\* push_samples never applies it there
InitToggle ==
  /\ mode = "Toggle"
  /\ is_composite = TRUE
  /\ max_recording_duration = MaxRecordingDurationSec
  /\ InitState

NextToggle ==
  \/ PushSamples_Call
  \/ PushSamples_Lock
  \/ PushSamples_Body
  \/ PushSamples_Return
  \/ Audio_Relock
  \/ Toggle_KeyEvent
  \/ Toggle_Check
  \/ Key_StartRecording
  \/ Key_StopRecording
  \/ Key_Return
  \/ Transcriber_Recv
  \/ Tick

SpecToggle == InitToggle /\ [][NextToggle]_vars

(* -------- post-processing runs: the functions stop_recording calls ----- *)
controllerVars == <<buffer, accumulated_samples, last_voice_activity,
                    recording_start_time, is_recording, chan, holder, poisoned,
                    now, audioVars, keyVars, histVars>>

\* Config as the user can set it (set_remove_silence, set_speed_factor); a
\* controller built from it by AudioCapture::new; a sample sequence and a
\* speed factor to run the post-processing functions on
InitPost ==
  /\ mode = "PushToTalk"
  /\ is_composite = FALSE
  /\ max_recording_duration = NoTime
  /\ InitController
  /\ SessionRunning
  /\ ParseIdle
  /\ pcP = "input"
  /\ samples_out = <<>>
  /\ \/ /\ samples_in \in TrimInputs \cup ShapeInputs
        /\ factor_in = speed_factor
        /\ config_remove_silence \in BOOLEAN
        /\ config_speed_factor \in {FOne, DefaultSpeedFactor}
     \/ /\ samples_in \in RampInputs
        /\ factor_in \in {FOne, FTwo, DefaultSpeedFactor}
        /\ config_remove_silence = TRUE
        /\ config_speed_factor = DefaultSpeedFactor

\* self.remove_silence_from_samples(&samples)
Post_RemoveSilence ==
  /\ pcP = "input"
  /\ samples_out' = RemoveSilenceAt(samples_in, PostTrimSpan, PostMinSegmentLen)
  /\ pcP' = "trimmed"
  /\ UNCHANGED <<configVars, controllerVars, sessionVars, parseVars, samples_in, factor_in>>

\* self.change_speed(&samples, speed_factor)
Post_ChangeSpeed ==
  /\ pcP = "input"
  /\ samples_out' = change_speed(samples_in, factor_in)
  /\ pcP' = "sped"
  /\ UNCHANGED <<configVars, controllerVars, sessionVars, parseVars, samples_in, factor_in>>

\* lines 303-317 of stop_recording on the emission source samples_in, in the
\* controller AudioCapture::new built from the Config
Post_StopRecording ==
  /\ pcP = "input"
  /\ samples_out' = PostProcessAt(samples_in, PostTrimSpan, PostMinSegmentLen)
  /\ pcP' = "stopped"
  /\ UNCHANGED <<configVars, controllerVars, sessionVars, parseVars, samples_in, factor_in>>

NextPost ==
  \/ Post_RemoveSilence
  \/ Post_ChangeSpeed
  \/ Post_StopRecording

SpecPost == InitPost /\ [][NextPost]_vars

(* ------------- key-name parsing: setup_ptt_control's call ------------ *)
\* the configured key is any of KeyNames
InitKeys ==
  /\ key_name \in KeyNames
  /\ mode \in {"PushToTalk", "Toggle"}
  /\ is_composite = (Len(key_name) >= 2)
  /\ max_recording_duration = MaxRecordingDurationSec
  /\ InitController
  /\ config_remove_silence = TRUE
  /\ config_speed_factor = DefaultSpeedFactor
  /\ PostIdle
  /\ SessionRunning
  /\ pcN = "input"
  /\ parsed_key = "none"

\* parse_key_name(key) (lines 514, 641)
Parse_KeyName ==
  /\ pcN = "input"
  /\ parsed_key' = parse_key_name(key_name)
  /\ pcN' = "parsed"
  /\ UNCHANGED <<configVars, postVars, sessionVars, controllerVars, key_name>>

NextKeys == Parse_KeyName

SpecKeys == InitKeys /\ [][NextKeys]_vars

(* ------- the session: main, the transcriber task, the output task ----- *)
\* the controller state apart from the handoff channel
recorderVars == <<buffer, accumulated_samples, last_voice_activity,
                  recording_start_time, is_recording, holder, poisoned, now,
                  audioVars, keyVars, histVars>>

\* the k-th emission of a session run: k samples of speech
Utterance(k) == [i \in 1..k |-> 60]

\* the TranscriptionResult the engine returns for an emission
TranscriptionOf(audio) == [text |-> audio]

\* no handle of result_tx is left: neither the Transcriber's own nor a clone
\* moved into a blocking closure or a send task (transcriber.rs lines 66-76)
NoResultSender == pcT = "done" /\ transcribing = {} /\ sending = {}

\* utils.rs lines 56-60: the task waiting on SIGINT clears the flag
Signal_Interrupt ==
  /\ running
  /\ running' = FALSE
  /\ UNCHANGED <<configVars, postVars, parseVars, recorderVars, chan, pcM, stream,
                 audio_tx_owners, pcT, transcribing, sending, result_chan, pcO,
                 placed, result_log>>

\* the controller sends an emission: tx.try_send(samples) in push_samples
\* (audio.rs lines 155, 223), called by the stream's callback, or in
\* stop_recording (line 328), called by the listener's callback.  A full
\* channel or a dropped receiver makes try_send return Err, which is ignored.
Controller_Emit ==
  /\ stream \/ "listener" \in audio_tx_owners
  /\ Len(placed) < MaxEmissions
  /\ LET u == Utterance(Len(placed) + 1)
         accepted == pcT # "done" /\ Len(chan) < ChanCapacity
     IN /\ chan' = IF accepted THEN TrySend(chan, u) ELSE chan
        /\ placed' = IF accepted THEN Append(placed, u) ELSE placed
  /\ UNCHANGED <<configVars, postVars, parseVars, recorderVars, running, pcM, stream,
                 audio_tx_owners, pcT, transcribing, sending, result_chan, pcO,
                 result_log>>

\* main.rs lines 231-239: the loop sees the flag cleared and
\* audio_capture.stop() drops the stream, and with it the stream's callback
Main_StopCapture ==
  /\ pcM = "loop"
  /\ ~running
  /\ stream' = FALSE
  /\ audio_tx_owners' = audio_tx_owners \ {"stream"}
  /\ pcM' = "await_transcriber"
  /\ UNCHANGED <<configVars, postVars, parseVars, recorderVars, chan, running, pcT,
                 transcribing, sending, result_chan, pcO, placed, result_log>>

\* main.rs line 242: transcriber_future.await
Main_AwaitTranscriber ==
  /\ pcM = "await_transcriber"
  /\ pcT = "done"
  /\ pcM' = "await_output"
  /\ UNCHANGED <<configVars, postVars, parseVars, recorderVars, chan, running, stream,
                 audio_tx_owners, pcT, transcribing, sending, result_chan, pcO,
                 placed, result_log>>

\* main.rs lines 243-246: output_future.await, then main returns: the
\* AudioCapture is dropped and the process, the listener thread with it, ends
Main_AwaitOutput ==
  /\ pcM = "await_output"
  /\ pcO = "done"
  /\ pcM' = "returned"
  /\ audio_tx_owners' = {}
  /\ UNCHANGED <<configVars, postVars, parseVars, recorderVars, chan, running, stream, pcT,
                 transcribing, sending, result_chan, pcO, placed, result_log>>

\* Transcriber::run, one turn of `while let Some(audio_data) =
\* self.audio_rx.recv().await` (transcriber.rs lines 51-123).  recv yields the
\* oldest emission, or None once the channel is empty and every owner of
\* audio_tx is gone.  An empty emission is skipped; encode_wav's Err leaves
\* run through `?`, dropping the Transcriber and its receiver; otherwise the
\* engine call is handed to spawn_blocking and the loop goes on.
Transcriber_Run ==
  /\ pcT = "recv"
  /\ \/ /\ chan # <<>>
        /\ \E encoded \in BOOLEAN :
             LET audio_data == Head(chan)
             IN IF audio_data = <<>>
                THEN /\ chan' = Tail(chan)
                     /\ UNCHANGED <<pcT, transcribing>>
                ELSE IF encoded
                THEN /\ chan' = Tail(chan)
                     /\ transcribing' = transcribing \cup {audio_data}
                     /\ UNCHANGED pcT
                ELSE /\ chan' = <<>>
                     /\ pcT' = "done"
                     /\ UNCHANGED transcribing
     \/ /\ chan = <<>>
        /\ audio_tx_owners = {}
        /\ pcT' = "done"
        /\ UNCHANGED <<chan, transcribing>>
  /\ UNCHANGED <<configVars, postVars, parseVars, recorderVars, running, pcM, stream,
                 audio_tx_owners, sending, result_chan, pcO, placed, result_log>>

\* a blocking closure ends (transcriber.rs lines 69-80): the engine's Ok(result)
\* spawns the task that sends it, its Err is logged
Transcription_Finish ==
  /\ \E audio \in transcribing, ok \in BOOLEAN :
       /\ transcribing' = transcribing \ {audio}
       /\ sending' = IF ok THEN sending \cup {TranscriptionOf(audio)} ELSE sending
  /\ UNCHANGED <<configVars, postVars, parseVars, recorderVars, chan, running, pcM, stream,
                 audio_tx_owners, pcT, result_chan, pcO, placed, result_log>>

\* result_tx.send(result).await of a spawned task (transcriber.rs lines 72-76):
\* it waits for room in the channel; with the receiver dropped it returns Err
Result_Send ==
  /\ \E r \in sending :
       /\ sending' = sending \ {r}
       /\ IF pcO = "done"
          THEN UNCHANGED <<result_chan, result_log>>
          ELSE /\ Len(result_chan) < ResultCapacity
               /\ result_chan' = Append(result_chan, r)
               /\ result_log' = Append(result_log, r)
  /\ UNCHANGED <<configVars, postVars, parseVars, recorderVars, chan, running, pcM, stream,
                 audio_tx_owners, pcT, transcribing, pcO, placed>>

\* OutputManager::run, one turn of `while let Some(result) =
\* self.result_rx.recv().await` (output.rs lines 35-53).  recv yields the oldest
\* result, or None once the channel is empty and every handle of result_tx is
\* gone; the Err of copy_to_clipboard or type_text leaves run through `?`,
\* dropping the receiver.
Output_Run ==
  /\ pcO = "recv"
  /\ \/ /\ result_chan # <<>>
        /\ \E written \in BOOLEAN :
             IF written
             THEN result_chan' = Tail(result_chan) /\ UNCHANGED pcO
             ELSE result_chan' = <<>> /\ pcO' = "done"
     \/ /\ result_chan = <<>>
        /\ NoResultSender
        /\ pcO' = "done"
        /\ UNCHANGED result_chan
  /\ UNCHANGED <<configVars, postVars, parseVars, recorderVars, chan, running, pcM, stream,
                 audio_tx_owners, pcT, transcribing, sending, placed, result_log>>

InitSession ==
  /\ mode \in Modes
  /\ is_composite = FALSE
  /\ max_recording_duration = MaxRecordingDurationSec
  /\ InitState

NextSession ==
  \/ Signal_Interrupt
  \/ Controller_Emit
  \/ Main_StopCapture
  \/ Main_AwaitTranscriber
  \/ Main_AwaitOutput
  \/ Transcriber_Run
  \/ Transcription_Finish
  \/ Result_Send
  \/ Output_Run

SpecSession == InitSession /\ [][NextSession]_vars

\* every task and main step when they can; the interrupt, the emissions and
\* the errors are not required
FairSpecSession ==
  /\ SpecSession
  /\ WF_vars(Main_StopCapture)
  /\ WF_vars(Main_AwaitTranscriber)
  /\ WF_vars(Main_AwaitOutput)
  /\ WF_vars(Transcriber_Run)
  /\ WF_vars(Transcription_Finish)
  /\ WF_vars(Result_Send)
  /\ WF_vars(Output_Run)

\* the audio device keeps calling back, every thread that can step does, time passes
FairSpecVA ==
  /\ SpecVA
  /\ WF_vars(PushSamples_Call)
  /\ WF_vars(PushSamples_Lock)
  /\ WF_vars(PushSamples_Body)
  /\ WF_vars(PushSamples_Return)
  /\ WF_vars(Audio_StartRecording)
  /\ WF_vars(Audio_Relock)
  /\ WF_vars(Tick)

\* every thread that can step does, the transcriber keeps receiving, time
\* passes, and the user lets go of the modifier key: the listener gets that
\* release whenever it keeps coming back for the next event
FairSpecPTT ==
  /\ SpecPTT
  /\ WF_vars(PushSamples_Call)
  /\ WF_vars(PushSamples_Lock)
  /\ WF_vars(PushSamples_Body)
  /\ WF_vars(PushSamples_Return)
  /\ WF_vars(Key_StartRecording)
  /\ WF_vars(Key_StopRecording)
  /\ WF_vars(Ptt_ReleaseCheck)
  /\ WF_vars(Key_Return)
  /\ WF_vars(Transcriber_Recv)
  /\ WF_vars(Tick)
  /\ SF_vars(Ptt_Dispatch("release", "modifier"))

\* the audio device keeps calling back, every thread that can step does, the
\* transcriber keeps receiving, time passes; no key event is ever required
FairSpecToggle ==
  /\ SpecToggle
  /\ WF_vars(PushSamples_Call)
  /\ WF_vars(PushSamples_Lock)
  /\ WF_vars(PushSamples_Body)
  /\ WF_vars(PushSamples_Return)
  /\ WF_vars(Audio_Relock)
  /\ WF_vars(Toggle_Check)
  /\ WF_vars(Key_StartRecording)
  /\ WF_vars(Key_StopRecording)
  /\ WF_vars(Key_Return)
  /\ WF_vars(Transcriber_Recv)
  /\ WF_vars(Tick)

(* ------------------------------ claims ------------------------------- *)
AudioLockTarget(pc) ==
  CASE pc = "lock_buffer" -> "buffer"
    [] pc = "lock_activity" -> "last_voice_activity"
    [] pc = "lock_start" -> "recording_start_time"
    [] OTHER -> "none"

AudioWaitsOnKey ==
  AudioLockTarget(pcA) # "none" /\ holder[AudioLockTarget(pcA)] = "key"

KeyWaitsOnAudio ==
  KeyLockTarget(pcK) # "none" /\ holder[KeyLockTarget(pcK)] = "audio"

Chord == mode = "PushToTalk" /\ is_composite

\* C1: no state is reachable in which the audio callback waits for a mutex the
\* key listener holds while the key listener waits for a mutex the audio
\* callback holds.
C1_NoLockCycle == ~(AudioWaitsOnKey /\ KeyWaitsOnAudio)

\* C2: a call of push_samples never goes on to lock a mutex that the same call
\* already holds, so it always gets to its return.
C2_PushSamplesReturns == pcA \notin {"relock", "deadlocked", "panicked"}

\* C3: in VoiceActivity mode, from Idle, a batch without voice leaves the
\* controller Idle, and a batch with voice is processed to its end with
\* is_recording true and both timestamps set.
C3_VoiceStartCompletes ==
  (mode = "VoiceActivity" /\ ~a_is_recording /\ batch # <<>>) =>
    /\ (~HasVoice(mode, batch) => (pcA = "return" /\ ~is_recording))
    /\ (HasVoice(mode, batch) =>
          \/ pcA \in {"start_load", "start_store"}
          \/ /\ pcA = "return"
             /\ is_recording
             /\ recording_start_time # NoTime
             /\ last_voice_activity # NoTime)

\* C4: in VoiceActivity mode, once Recording, when the time since
\* last_voice_activity exceeds silence_duration the controller goes back to Idle.
C4_SilenceStops ==
  (mode = "VoiceActivity" /\ is_recording
     /\ SilenceExceeded(last_voice_activity, now)) ~> ~is_recording

\* C5: the ring never holds more than its capacity, and it holds exactly the
\* last `capacity` samples pushed since it was last cleared, in arrival order.
C5_RingHoldsLastSamples ==
  /\ Len(buffer) <= Capacity
  /\ histValid => buffer = LastN(hist, Capacity)

\* C5 witness: more samples than the capacity were pushed and the evicted one
\* differs from the oldest one kept.
C5_Witness ==
  /\ histValid
  /\ Len(hist) > Capacity
  /\ buffer = LastN(hist, Capacity)
  /\ hist[1] # buffer[1]

\* C6: when no operation is running, recording_start_time is set if and only
\* if is_recording is true.
C6_StartTimeIffRecording ==
  (pcA = "idle" /\ pcK = "idle") => ((recording_start_time # NoTime) <=> is_recording)

\* C7: with a two-key chord in PushToTalk mode, from Idle, the listener calls
\* start_recording exactly for a key-down of the base key while the modifier
\* is held, that call sets is_recording, and nothing else sets it.
C7_ChordStart ==
  [][Chord =>
       /\ (pcK = "idle" /\ pcK' # "idle" /\ ~is_recording) =>
            ((pcK' = "start_load") <=>
               (kEvent' = <<"press", "base">> /\ modifier_pressed))
       /\ (~is_recording /\ is_recording') =>
            (pcK = "start_store" /\ kEvent = <<"press", "base">> /\ modifier_pressed)
       /\ (pcK = "start_load" /\ pcK' # pcK /\ ~is_recording) => pcK' = "start_store"
       /\ (pcK = "start_store" /\ pcK' # pcK) => is_recording'
    ]_vars

\* C7 witness: the base key went down with the modifier held, from Idle, and
\* start_recording has run to its end.
C7_Witness ==
  /\ Chord
  /\ kEvent = <<"press", "base">>
  /\ modifier_pressed
  /\ ~kWasRecording
  /\ pcK = "return"
  /\ is_recording
  /\ recording_start_time # NoTime

\* C8: with a two-key chord in PushToTalk mode, while Recording, the release of
\* the base key with the modifier still held stops the recording.
C8_BaseReleaseStops ==
  (Chord /\ kEvent = <<"release", "base">> /\ modifier_pressed
     /\ kWasRecording /\ pcK = "return") => ~is_recording

\* C9: with a two-key chord in PushToTalk mode, while Recording, the release
\* of the modifier stops the recording.
C9_ModifierReleaseEndsRecording == (Chord /\ is_recording) ~> ~is_recording

\* The callback for the release of the modifier, whenever it runs, ends with
\* is_recording false, and the callback for a release of the base key that
\* finds the controller Idle emits nothing.
ModifierReleaseCallbackStops ==
  Chord =>
    /\ (kEvent = <<"release", "modifier">> /\ pcK = "return") => ~is_recording
    /\ (kEvent = <<"release", "base">> /\ ~kWasRecording) =>
         (~kSent /\ pcK \in {"stop_load", "return"})

\* C10: in PushToTalk mode no step of push_samples changes is_recording.
C10_BatchKeepsFlag ==
  [][(mode = "PushToTalk" /\ pcA' # pcA) => is_recording' = is_recording]_vars

\* C10 witness: a batch was processed during a recording, the maximum duration
\* was reached (the ring was emitted and cleared) and the flag is still set.
C10_Witness ==
  /\ mode = "PushToTalk"
  /\ pcA = "return"
  /\ a_is_recording
  /\ buffer = <<>>
  /\ chan # <<>>
  /\ is_recording

(* --------------------------- Toggle claims --------------------------- *)
\* the chord of the toggle key is complete in the event being handled
TogglePress == kEvent = <<"press", "base">> /\ modifier_pressed

\* the batch's peak is above the base threshold and not above 2.5x of it
PeakBelowToggleThreshold(b) ==
  /\ \E i \in 1..Len(b) : Abs(b[i]) > DefaultSilenceThreshold
  /\ \A i \in 1..Len(b) : 2 * Abs(b[i]) <= 5 * DefaultSilenceThreshold

\* what stop_recording would put on the channel from the given buffers
StopEmission(acc, ring, ch) ==
  LET src == IF acc # <<>> THEN acc ELSE ring
      out == PostProcess(src)
  IN IF out # <<>> THEN TrySend(ch, out) ELSE ch

\* C11: in Toggle mode the callback for a press of the toggle key (the base
\* key with the modifier held) ends with is_recording the opposite of what the
\* callback read, and the callback for a key release does nothing to the
\* controller.
C11_PressFlips ==
  [][mode = "Toggle" =>
       /\ (pcK # "return" /\ pcK' = "return" /\ TogglePress' /\ poisoned = {}) =>
            is_recording' = ~kWasRecording'
       /\ (pcK = "idle" /\ pcK' # "idle" /\ kEvent'[1] = "release") =>
            (pcK' = "return" /\ is_recording' = is_recording)
    ]_vars

\* C12: in Toggle mode a batch whose peak lies above the base threshold but not
\* above 2.5x of it is not appended to the accumulation buffer and does not
\* update last_voice_activity.
C12_ToggleThreshold ==
  [][(mode = "Toggle" /\ pcA = "body" /\ pcA' # "body"
        /\ PeakBelowToggleThreshold(batch')) =>
       /\ accumulated_samples' = accumulated_samples
       /\ last_voice_activity' = last_voice_activity
    ]_vars

\* C12 witness: such a batch was handled during a recording that had already
\* accumulated voice, after the clock moved on from the last voice activity.
C12_Witness ==
  /\ mode = "Toggle"
  /\ pcA = "return"
  /\ a_is_recording
  /\ is_recording
  /\ PeakBelowToggleThreshold(batch)
  /\ accumulated_samples # <<>>
  /\ last_voice_activity # NoTime
  /\ last_voice_activity < now

\* C13: during a Toggle recording, whenever no operation is running, the
\* accumulation buffer is the in-order concatenation of the batches with voice
\* that were handled since the recording started.
C13_AccumulationIsVoicedBatches ==
  (mode = "Toggle" /\ is_recording /\ pcA = "idle" /\ pcK = "idle") =>
    accumulated_samples = accExpected

\* C14: in Toggle mode, while Recording, once the time since the last
\* significant voice exceeds the watchdog timeout the controller leaves
\* Recording.
C14_WatchdogStops ==
  (mode = "Toggle" /\ is_recording /\ last_voice_activity # NoTime
     /\ now - last_voice_activity > ToggleSilenceThresholdSec) ~> ~is_recording

\* The step of push_samples that handles a batch of a Toggle recording whose
\* silence has exceeded the watchdog timeout clears is_recording, whatever
\* happens to the call afterwards.
WatchdogStepStops ==
  [][(mode = "Toggle" /\ pcA = "body" /\ pcA' # "body" /\ is_recording
        /\ last_voice_activity' # NoTime
        /\ now - last_voice_activity' > ToggleSilenceThresholdSec) =>
       ~is_recording'
    ]_vars

\* C15: in Toggle mode a call of push_samples that found the controller
\* Recording and stopped it (the watchdog) goes on to its return with the
\* accumulation buffer empty.
C15_WatchdogStopContinues ==
  (mode = "Toggle" /\ a_is_recording /\ ~is_recording) =>
    (pcA = "return" /\ accumulated_samples = <<>>)

\* C16: the step of push_samples that stops a Toggle recording leaves what
\* stop_recording would leave from the same buffers: the same channel
\* contents, the ring empty and the accumulation buffer empty.
C16_WatchdogStopAsKeyStop ==
  [][(mode = "Toggle" /\ pcA = "body" /\ is_recording /\ ~is_recording') =>
       LET acc == IF Accumulates(mode, TRUE, batch')
                  THEN accumulated_samples \o batch'
                  ELSE accumulated_samples
           ring == RingPush(buffer, batch', Capacity)
       IN /\ chan' = StopEmission(acc, ring, chan)
          /\ buffer' = <<>>
          /\ accumulated_samples' = <<>>
    ]_vars

\* C17: the step of stop_recording that builds the emission takes the
\* accumulation buffer when it is non-empty, else the ring, and leaves the
\* accumulation buffer empty; a stop that finds the ring empty finds the
\* accumulation buffer empty too and emits nothing.
C17_StopEmissionSource ==
  [][/\ (pcK = "stop_lock_accum" /\ pcK' = "return"
           /\ "accumulated_samples" \notin poisoned) =>
          /\ chan' = StopEmission(accumulated_samples, buffer, chan)
          /\ accumulated_samples' = <<>>
     /\ (pcK = "stop_lock_buffer" /\ pcK' = "return" /\ "buffer" \notin poisoned) =>
          /\ chan' = chan
          /\ buffer = <<>>
          /\ accumulated_samples' = <<>>
    ]_vars

\* C17 witness: a Toggle recording that had accumulated voice was stopped by
\* the key, the accumulation buffer is empty and the processed accumulated
\* audio is the newest emission on the channel.
C17_Witness ==
  /\ mode = "Toggle"
  /\ pcK = "return"
  /\ TogglePress
  /\ kWasRecording
  /\ ~is_recording
  /\ kSent
  /\ accExpected # <<>>
  /\ accumulated_samples = <<>>
  /\ chan # <<>>
  /\ chan[Len(chan)] = PostProcess(accExpected)

\* C18: every step that takes the controller from Recording to Idle, and the
\* step that ends the stop_recording that did, leaves the ring empty.
C18_StopClearsRing ==
  [][/\ (pcA = "body" /\ is_recording /\ ~is_recording') => buffer' = <<>>
     /\ (pcK \in {"stop_lock_buffer", "stop_lock_accum"} /\ pcK' = "return"
           /\ ~is_recording') => buffer' = <<>>
    ]_vars

\* C19: when start_recording, called in Idle, returns successfully,
\* is_recording is true, both timestamps are set (the start time first) and
\* the accumulation buffer is empty.
C19_StartPostcondition ==
  [][(pcK = "start_lock_accum" /\ pcK' = "return"
        /\ "accumulated_samples" \notin poisoned) =>
       /\ is_recording'
       /\ recording_start_time' # NoTime
       /\ last_voice_activity' # NoTime
       /\ recording_start_time' <= last_voice_activity'
       /\ accumulated_samples' = <<>>
    ]_vars

SegmentationStep ==
  /\ pcA = "body"
  /\ mode \in {"VoiceActivity", "PushToTalk"}
  /\ max_recording_duration # NoTime
  /\ is_recording
  /\ recording_start_time # NoTime
  /\ now - recording_start_time >= max_recording_duration

\* C21: in VoiceActivity and PushToTalk mode with max_recording_duration set,
\* the step of push_samples that handles a batch while Recording, with the time
\* since recording_start_time at or beyond the cap, sends the ring (the batch
\* included) unprocessed on the channel, leaves the ring empty and
\* recording_start_time equal to now, and, in PushToTalk mode or when the batch
\* has voice, leaves is_recording true.
C21_MaxDurationSegments ==
  [][(SegmentationStep /\ pcA' # "body") =>
       /\ chan' = TrySend(chan, RingPush(buffer, batch', Capacity))
       /\ buffer' = <<>>
       /\ recording_start_time' = now
       /\ (mode = "PushToTalk" \/ HasVoice(mode, batch')) => is_recording'
    ]_vars

\* C21 witness: a PushToTalk recording reached its cap, the call that handled
\* the batch has sent the ring, which held older samples and then the batch,
\* and the recording goes on with a new start time.
C21_Witness ==
  /\ mode = "PushToTalk"
  /\ pcA = "return"
  /\ a_is_recording
  /\ is_recording
  /\ now >= MaxRecordingDurationSec
  /\ recording_start_time = now
  /\ buffer = <<>>
  /\ chan # <<>>
  /\ Len(chan[Len(chan)]) > Len(batch)
  /\ LastN(chan[Len(chan)], Len(batch)) = batch

\* C22: when a recording in VoiceActivity or PushToTalk mode is segmented, the
\* segment sent holds, in order, every sample received since the recording
\* began or was last segmented.
C22_NoAudioLost ==
  [][(SegmentationStep /\ pcA' # "body" /\ histValid
        /\ Len(hist) + Len(batch') <= MaxHist /\ Len(chan) < ChanCapacity) =>
       LET all == hist \o batch'
           received == SubSeq(all, recFrom + 1, Len(all))
       IN /\ Len(chan') = Len(chan) + 1
          /\ Len(chan'[Len(chan')]) >= Len(received)
          /\ LastN(chan'[Len(chan')], Len(received)) = received
    ]_vars

\* C23: no emission on the handoff channel is an empty sequence.
C23_NoEmptyEmission == \A i \in 1..Len(chan) : chan[i] # <<>>

\* C23 witness: a Toggle recording with accumulated voice was stopped by the
\* key, the post-processing of that voice leaves nothing, and stop_recording
\* has returned without sending, the channel still holding an earlier emission.
C23_Witness ==
  /\ mode = "Toggle"
  /\ pcK = "return"
  /\ TogglePress
  /\ kWasRecording
  /\ ~is_recording
  /\ accExpected # <<>>
  /\ PostProcess(accExpected) = <<>>
  /\ accumulated_samples = <<>>
  /\ buffer = <<>>
  /\ ~kSent
  /\ chan # <<>>
  /\ poisoned = {}

\* C24: the channel never holds more than its bound, and an emitting step
\* that finds it full leaves it as it was and makes the state changes it makes
\* when the send succeeds: stop_recording ends with the flag false, both
\* buffers empty and no mutex held; the segmentation ends with the ring empty
\* and the start time reset, on its way to the return.
C24_FullChannelDrops ==
  /\ [](Len(chan) <= ChanCapacity)
  /\ [][/\ (pcK = "stop_lock_accum" /\ pcK' = "return"
              /\ "accumulated_samples" \notin poisoned) =>
             /\ (Len(chan) = ChanCapacity => chan' = chan)
             /\ ~is_recording'
             /\ buffer' = <<>>
             /\ accumulated_samples' = <<>>
             /\ \A m \in Mutexes : holder'[m] # "key"
        /\ (SegmentationStep /\ pcA' # "body" /\ mode = "PushToTalk") =>
             /\ (Len(chan) = ChanCapacity => chan' = chan)
             /\ buffer' = <<>>
             /\ recording_start_time' = now
             /\ is_recording' = is_recording
             /\ pcA' = "return"
       ]_vars

\* C24 witness: stop_recording tried to send its emission, which is shorter
\* than the ring, while the channel was full of a segment as long as the
\* ring: the emission was dropped and the stop completed.
C24_Witness ==
  /\ mode = "PushToTalk"
  /\ pcK = "return"
  /\ kWasRecording
  /\ kSent
  /\ ~is_recording
  /\ buffer = <<>>
  /\ Len(chan) = ChanCapacity
  /\ Len(chan[Len(chan)]) = Capacity

(* ------------------------- post-processing --------------------------- *)
\* s is t with some of its elements left out
RECURSIVE IsSubsequence(_, _)
IsSubsequence(s, t) ==
  IF s = <<>> THEN TRUE
  ELSE IF t = <<>> THEN FALSE
  ELSE IF Head(s) = Head(t) THEN IsSubsequence(Tail(s), Tail(t))
  ELSE IsSubsequence(s, Tail(t))

Silent(x) == Abs(x) <= TrimThreshold

\* s holds n consecutive samples at or below the trim threshold
HasSilentSpan(s, n) ==
  \E i \in 1..(Len(s) - n + 1) : \A j \in i..(i + n - 1) : Silent(s[j])

\* C25: stop_recording's post-processing is the trimming followed by the
\* speed change: its result is change_speed(remove_silence(source)).
C25_TrimThenSpeed ==
  pcP = "stopped" =>
    samples_out =
      change_speed(RemoveSilenceAt(samples_in, PostTrimSpan, PostMinSegmentLen),
                   speed_factor)

\* C25 witness: a source for which the two orders differ was processed.
C25_Witness ==
  /\ pcP = "stopped"
  /\ samples_out # <<>>
  /\ samples_out #
       RemoveSilenceAt(change_speed(samples_in, speed_factor),
                       PostTrimSpan, PostMinSegmentLen)

\* C26: for an input [silence, speech shorter than the minimum segment
\* length, silence of at least the run-ending span, speech longer than the
\* minimum, silence] the trimming returns exactly the long speech run.
C26_ShortRunDropped ==
  pcP = "trimmed" =>
    \A p \in ShapeParams : samples_in = Shape(p) => samples_out = Run(p.s2, p.long)

\* C26 witness: such an input, with speech runs at different levels and a
\* trailing silence as long as the span, was trimmed to its long run.
C26_Witness ==
  /\ pcP = "trimmed"
  /\ \E p \in ShapeParams :
       /\ samples_in = Shape(p)
       /\ p.s1 # p.s2
       /\ p.trail >= PostTrimSpan
       /\ samples_out = Run(p.s2, p.long)

\* C27: the output of the trimming is a subsequence of its input, in order;
\* when it is not empty it begins and ends with a sample above the threshold;
\* and it holds no run of span or more samples at or below the threshold.
C27_TrimOutputShape ==
  pcP = "trimmed" =>
    /\ IsSubsequence(samples_out, samples_in)
    /\ samples_out # <<>> =>
         (~Silent(samples_out[1]) /\ ~Silent(samples_out[Len(samples_out)]))
    /\ ~HasSilentSpan(samples_out, PostTrimSpan)

\* C27 witness: the output keeps a silence shorter than the span inside a
\* retained run, and the input lost samples.
C27_Witness ==
  /\ pcP = "trimmed"
  /\ Len(samples_out) < Len(samples_in)
  /\ \E i \in 2..(Len(samples_out) - 1) : Silent(samples_out[i])

\* the index floor(i * f) for the decimal factor and for the factor as stored
ExactIdx(i, factor) ==
  {(i * factor[1]) \div factor[2]}
    \cup (IF FEq(factor, DefaultSpeedFactor) THEN {(i * SpeedNum) \div SpeedDen} ELSE {})

\* the length floor(n / f) for the decimal factor and for the factor as stored
ExactLen(n, factor) ==
  {(n * factor[2]) \div factor[1]}
    \cup (IF FEq(factor, DefaultSpeedFactor) THEN {(n * SpeedDen) \div SpeedNum} ELSE {})

\* C28: with factor 2 the output of change_speed has floor(n / 2) samples and
\* output[i] = input[2 i]; with any factor the output is no longer than
\* floor(n / factor) and every output[i] is input[floor(i * factor)], an
\* index inside the input.
C28_SpeedChange ==
  pcP = "sped" =>
    LET n == Len(samples_in)
        m == Len(samples_out)
    IN /\ FEq(factor_in, FTwo) =>
            /\ m = n \div 2
            /\ \A i \in 0..(m - 1) : samples_out[i + 1] = samples_in[2 * i + 1]
       /\ \E len \in ExactLen(n, factor_in) : m <= len
       /\ \A i \in 0..(m - 1) :
            \E src \in ExactIdx(i, factor_in) :
              src < n /\ samples_out[i + 1] = samples_in[src + 1]

\* With factor 2 the output of change_speed has floor(n / 2) samples and
\* output[i] = input[2 i], for every input the significand holds exactly.
SpeedByTwo ==
  (pcP = "sped" /\ FEq(factor_in, FTwo)) =>
    /\ Len(samples_out) = Len(samples_in) \div 2
    /\ \A i \in 0..(Len(samples_out) - 1) : samples_out[i + 1] = samples_in[2 * i + 1]

IdentityForDisabledFields ==
  pcP = "input" =>
    PostProcessWith(FALSE, FOne, samples_in, PostTrimSpan, PostMinSegmentLen) = samples_in

\* C30: stop_recording's post-processing is the one the Config given to
\* AudioCapture::new asks for: it trims exactly when config.remove_silence is
\* true and changes the speed by config.speed_factor.
C30_ConfigDrivesPostProcessing ==
  pcP = "stopped" =>
    samples_out =
      PostProcessWith(config_remove_silence, config_speed_factor, samples_in,
                      PostTrimSpan, PostMinSegmentLen)

(* ------------------- timestamps, races and no-ops -------------------- *)
\* no sample of the batch is above twice the effective threshold of the mode
NoSignificantVoice(b) == \A i \in 1..Len(b) : Abs(b[i]) <= 2 * ActualThreshold(mode)

\* some sample of the batch is above the effective threshold, none above twice it
WeakVoiceOnly(b) ==
  /\ NoSignificantVoice(b)
  /\ \E i \in 1..Len(b) : Abs(b[i]) > ActualThreshold(mode)

\* C31: the step of push_samples that handles a batch without significant
\* voice (weak voice only, or none) leaves last_voice_activity as it was,
\* whether or not the controller is Recording; last_voice_activity changes
\* only in that step for a batch with significant voice, or in
\* start_recording, and then to the current instant.
C31_WeakVoiceKeepsActivity ==
  [][/\ (pcA = "body" /\ pcA' # "body" /\ NoSignificantVoice(batch')) =>
          last_voice_activity' = last_voice_activity
     /\ (last_voice_activity' # last_voice_activity) =>
          /\ last_voice_activity' = now
          /\ \/ pcA = "body" /\ pcA' # "body" /\ ~NoSignificantVoice(batch')
             \/ pcK = "start_lock_activity" /\ pcK' = "start_lock_accum"
    ]_vars

\* C31 witness: a batch with weak voice only was handled during a recording,
\* after the clock moved on from the last voice activity, and the timestamp
\* is still the older one.
C31_Witness ==
  /\ pcA = "return"
  /\ a_is_recording
  /\ is_recording
  /\ WeakVoiceOnly(batch)
  /\ last_voice_activity # NoTime
  /\ last_voice_activity < now

(* ------------------------------ session ------------------------------ *)
\* C32: once the interrupt has cleared the running flag, main leaves its
\* loop, stops the capture, sees the transcriber task and the output task end,
\* and returns.
C32_ShutdownCompletes == ~running ~> pcM = "returned"

\* Until main returns the AudioCapture it owns keeps audio_tx alive, so the
\* transcriber's recv never yields None: its loop ends only through an error.
CaptureKeepsSender ==
  /\ pcM # "returned" => "capture" \in audio_tx_owners
  /\ (pcT = "done" /\ pcM # "returned") => Len(placed) > 0

(* ----------------------------- key names ----------------------------- *)
\* the key of the name: the base key of a chord, or the key given alone
BaseToken(name) == IF Len(name) >= 2 THEN Trim(name[2]) ELSE name[1]

\* C33: every key name whose key is in no table is resolved to one and the
\* same key, given alone or as the base key of a chord.
C33_OneFallbackKey ==
  (pcN = "parsed" /\ BaseToken(key_name) \in UnknownTokens) =>
    \A other \in KeyNames :
      BaseToken(other) \in UnknownTokens => parse_key_name(other) = parsed_key

\* An unknown key is resolved to F9 as the base key of a chord and to
\* CapsLock when given alone, and every call returns a key.
FallbackByForm ==
  pcN = "parsed" =>
    /\ parsed_key # "none"
    /\ BaseToken(key_name) \in UnknownTokens =>
         parsed_key = (IF Len(key_name) >= 2 THEN "F9" ELSE "CapsLock")

(* --------------------- trimming at the boundary ---------------------- *)
\* silence, one speech run of n samples, silence
OneRun(lead, n, trail) == Run(0, lead) \o Run(60, n) \o Run(0, trail)

\* the shapes of OneRun the inputs hold: runs below, at and above the
\* minimum segment length, ended by a silence of the span or still in
\* progress at the end of the input
OneRunParams ==
  [lead : 0..1, n : 1..(PostMinSegmentLen + 2), trail : 0..(PostTrimSpan + 1)]

\* C34: a speech run is dropped by the trimming if and only if its trimmed
\* length is below the minimum segment length; a run of exactly the minimum
\* is kept, ended by a silent span or in progress at the end of the input.
C34_MinLengthBoundary ==
  pcP = "trimmed" =>
    \A p \in OneRunParams :
      samples_in = OneRun(p.lead, p.n, p.trail) =>
        samples_out = (IF p.n >= PostMinSegmentLen THEN Run(60, p.n) ELSE <<>>)

\* A speech run is kept by the trimming if and only if its trimmed length is
\* above the minimum segment length.
RunKeptIffAboveMinimum ==
  pcP = "trimmed" =>
    \A p \in OneRunParams :
      samples_in = OneRun(p.lead, p.n, p.trail) =>
        samples_out = (IF p.n > PostMinSegmentLen THEN Run(60, p.n) ELSE <<>>)

(* ----------------------- Toggle and the cap -------------------------- *)
\* C35: in Toggle mode the step of push_samples that handles a batch never
\* clears the ring and never resets recording_start_time to a new instant,
\* however long the recording has lasted, and it sends on the channel only
\* when it stops the recording (the watchdog).
C35_ToggleNotSegmented ==
  [][(mode = "Toggle" /\ pcA = "body" /\ pcA' # "body") =>
       /\ buffer' = RingPush(buffer, batch', Capacity)
       /\ recording_start_time' \in {recording_start_time, NoTime}
       /\ chan' # chan => (is_recording /\ ~is_recording')
    ]_vars

\* C35 witness: a batch was handled in a Toggle recording that had lasted the
\* configured maximum, and the recording goes on with its start time, the
\* ring holding the batch and nothing on the channel.
C35_Witness ==
  /\ mode = "Toggle"
  /\ pcA = "return"
  /\ a_is_recording
  /\ is_recording
  /\ max_recording_duration # NoTime
  /\ recording_start_time # NoTime
  /\ now - recording_start_time >= max_recording_duration
  /\ buffer # <<>>
  /\ LastN(buffer, Len(batch)) = LastN(batch, Capacity)
  /\ chan = <<>>

(* --------------- start_recording against push_samples ---------------- *)
\* the listener's start_recording has stored is_recording and has not yet
\* stored the new recording_start_time (between lines 256 and 260)
StartTimePending == pcK = "start_lock_start"

\* C36: no step of push_samples segments a recording on the basis of the
\* start time of an earlier recording: when the segmentation happens, no
\* start_recording is between its store of is_recording and its store of
\* recording_start_time.
C36_SegmentsOwnRecording ==
  [][(SegmentationStep /\ pcA' # "body") => ~StartTimePending]_vars

\* C37: in Toggle mode no step of push_samples stops a recording whose
\* start_recording has not yet refreshed last_voice_activity, so that a
\* start_recording called in Idle that returns successfully returns with
\* is_recording true.
C37_WatchdogSparesNewRecording ==
  [][mode = "Toggle" =>
       /\ (pcA = "body" /\ is_recording /\ ~is_recording') => ~StartTimePending
       /\ (pcK = "start_lock_accum" /\ pcK' = "return" /\ poisoned = {}
             /\ ~kWasRecording) => is_recording'
    ]_vars

(* ------------------------------ no-ops ------------------------------- *)
\* C38: start_recording that finds the flag set and stop_recording that finds
\* it clear return at once: the step that loads the flag is the call's last,
\* and it changes neither the flag, the timestamps, the ring, the accumulation
\* buffer nor the channel.
C38_RedundantCallsAreNoOps ==
  [][LET \* the controller state a call of either operation can change
         CallEffects ==
           <<is_recording, recording_start_time, last_voice_activity, buffer,
             accumulated_samples, chan, holder, poisoned>>
     IN  /\ (pcK = "start_load" /\ is_recording /\ pcK' # pcK) =>
              (pcK' = "return" /\ UNCHANGED CallEffects)
         /\ (pcK = "stop_load" /\ ~is_recording /\ pcK' # pcK) =>
              (pcK' = "return" /\ UNCHANGED CallEffects)
    ]_vars

\* C38 witness: the press of the key during a recording that had begun
\* earlier and had audio in the ring called start_recording, which has
\* returned: the recording goes on with its start time and its ring.
C38_Witness ==
  /\ mode = "PushToTalk"
  /\ pcK = "return"
  /\ kEvent = <<"press", "base">>
  /\ kWasRecording
  /\ is_recording
  /\ recording_start_time # NoTime
  /\ recording_start_time < now
  /\ last_voice_activity < now
  /\ buffer # <<>>
  /\ poisoned = {}

(* ------------------------- order of the results ---------------------- *)
\* C39: the results are sent on the result channel in the order in which
\* their emissions were placed on the handoff channel.
C39_ResultsInEmissionOrder ==
  LET \* the place of a result's emission among the emissions placed
      PlaceOf(r) == CHOOSE k \in 1..Len(placed) : placed[k] = r.text
  IN  \A i, j \in 1..Len(result_log) :
        i < j => PlaceOf(result_log[i]) < PlaceOf(result_log[j])

\* The transcriber takes the emissions in the order in which they were
\* placed: the ones not yet received are the last ones placed.
ReceivedInOrder == chan = LastN(placed, Len(chan))

====
